---------------------------- MODULE Spec2Model ----------------------------
(***************************************************************************)
(* A model of the contact-sheet generator (wf_generate-contact-sheet.py    *)
(* and its older sibling generate-contact-sheet.py).                       *)
(*                                                                         *)
(* File names are sequences of one-character strings, so that the regular  *)
(* expressions of the scripts are modelled by what they match.  The path   *)
(* of a directory is the sequence of its segments; the path of a file,     *)
(* os.path.join(folder, file), is the record [dir |-> folder, name |->     *)
(* file].                                                                  *)
(***************************************************************************)
EXTENDS Integers, Sequences, FiniteSets, TLC

VARIABLES
  pc,            \* position of the modelled call or run
  listing,       \* os.listdir(renders_folder), in listing order
  latest_files,  \* what get_latest_versioned_files returned
  tree,          \* the sequence folder: directories in walk order, and their files
  latest_images, \* what gather_all_latest_images returned
  num_images,    \* len(image_tuples) of the grid computation
  grid,          \* columns and rows after the adjustment loop
  img_size,      \* img.size of the image handed to resize_to_height
  resized,       \* the size of the image resize_to_height returned
  image_tuples,  \* the (path, dept) tuples, with the size Image.open reads at path
  labeled,       \* the labeled argument of create_contact_sheet
  sheet,         \* the outcome of create_contact_sheet
  nuke_lines,    \* the lines of the Nuke script
  script,        \* which entry script runs: "wf" or "plain"
  platform,      \* platform.system()
  output_dir,    \* Contact-Sheets: file name -> content
  old_dir,       \* Contact-Sheets/old: file name -> content
  version,       \* the version the current run chose
  todo,          \* entries of the archiving loop's os.listdir still to visit
  run,           \* the record of the current run
  history        \* the records of the finished runs, oldest first

vars == <<pc, listing, latest_files, tree, latest_images, num_images, grid,
          img_size, resized, image_tuples, labeled, sheet, nuke_lines, script, platform,
          output_dir, old_dir, version, todo, run, history>>

resolverVars == <<listing, latest_files>>
walkerVars   == <<tree, latest_images>>
gridVars     == <<num_images, grid>>
resizeVars   == <<img_size, resized>>
sheetVars    == <<image_tuples, labeled, sheet>>
nukeVars     == <<nuke_lines>>
mainVars     == <<script, platform, output_dir, old_dir, version, todo, run, history>>

-----------------------------------------------------------------------------
(* Bounds of the model *)

MaxListing == 3   \* entries of one renders folder
MaxShots   == 2   \* shot directories of one sequence folder
MaxGridN   == 60  \* images of the grid computation
MaxSide    == 30  \* width and height of an image handed to resize_to_height
MaxImages  == 5   \* images handed to create_contact_sheet
MaxNukeImages == 4  \* images handed to the Nuke exporter
MaxRuns    == 4   \* runs of the entry script on one output directory

-----------------------------------------------------------------------------
(* Characters and strings *)

Digits == {"0", "1", "2", "3", "4", "5", "6", "7", "8", "9"}

IsDigit(c) == c \in Digits

\* int() of one decimal digit
DigitVal(c) ==
  CASE c = "0" -> 0 [] c = "1" -> 1 [] c = "2" -> 2 [] c = "3" -> 3
    [] c = "4" -> 4 [] c = "5" -> 5 [] c = "6" -> 6 [] c = "7" -> 7
    [] c = "8" -> 8 [] c = "9" -> 9

\* str(d) of one decimal digit
DigitChar(d) ==
  CASE d = 0 -> "0" [] d = 1 -> "1" [] d = 2 -> "2" [] d = 3 -> "3"
    [] d = 4 -> "4" [] d = 5 -> "5" [] d = 6 -> "6" [] d = 7 -> "7"
    [] d = 8 -> "8" [] d = 9 -> "9"

\* ord(c) of the characters that occur in the modelled names
Ord(c) ==
  CASE c = "." -> 46 [] c = "_" -> 95
    [] c = "C" -> 67 [] c = "G" -> 71 [] c = "L" -> 76 [] c = "M" -> 77
    [] c = "P" -> 80 [] c = "T" -> 84
    [] c = "a" -> 97 [] c = "b" -> 98 [] c = "g" -> 103 [] c = "h" -> 104
    [] c = "j" -> 106 [] c = "n" -> 110 [] c = "p" -> 112 [] c = "s" -> 115
    [] c = "t" -> 116 [] c = "v" -> 118 [] c = "x" -> 120
    [] IsDigit(c) -> 48 + DigitVal(c)

RECURSIVE ParseInt(_)
\* int(s) of a non-empty string of decimal digits
ParseInt(s) ==
  IF Len(s) = 0 THEN 0
  ELSE 10 * ParseInt(SubSeq(s, 1, Len(s) - 1)) + DigitVal(s[Len(s)])

AllDigits(s) == \A i \in 1..Len(s) : IsDigit(s[i])

\* s[i:j] where both ends are inside s (1-based, inclusive)
Slice(s, i, j) == SubSeq(s, i, j)

EndsWith(s, suffix) ==
  /\ Len(s) >= Len(suffix)
  /\ SubSeq(s, Len(s) - Len(suffix) + 1, Len(s)) = suffix

RECURSIVE LStrip(_, _)
LStrip(s, c) == IF Len(s) > 0 /\ s[1] = c THEN LStrip(Tail(s), c) ELSE s

RECURSIVE RStrip(_, _)
RStrip(s, c) ==
  IF Len(s) > 0 /\ s[Len(s)] = c THEN RStrip(SubSeq(s, 1, Len(s) - 1), c) ELSE s

\* str.strip(c): the occurrences of c at both ends are removed
Strip(s, c) == RStrip(LStrip(s, c), c)

Max(S) == CHOOSE x \in S : \A y \in S : y <= x

\* the sequences over S of length at most n
SeqsUpTo(S, n) == UNION {[1..k -> S] : k \in 0..n}

Range(s) == {s[i] : i \in 1..Len(s)}

IsInjective(s) == \A i, j \in 1..Len(s) : s[i] = s[j] => i = j

-----------------------------------------------------------------------------
(* get_latest_versioned_files *)

PngSuffix == <<".", "p", "n", "g">>

\* re.compile(r"^(.*?)(\.v\d{3})\.(\d{4})\.png$").match(file): the pattern is
\* anchored at both ends and everything after group 1 has a fixed length of
\* 14 characters, so group 1 is the text before the last 14 characters.
VersionPatternMatches(file) ==
  LET n == Len(file) IN
  /\ n >= 14
  /\ file[n - 13] = "."
  /\ file[n - 12] = "v"
  /\ AllDigits(Slice(file, n - 11, n - 9))
  /\ file[n - 8] = "."
  /\ AllDigits(Slice(file, n - 7, n - 4))
  /\ Slice(file, n - 3, n) = PngSuffix

MatchGroup1(file) == Slice(file, 1, Len(file) - 14)

\* base_name = match.group(1).strip(".")
BaseNameOf(file) == Strip(MatchGroup1(file), ".")

\* version = int(re.search(r"v(\d{3})", version_str).group(1))
VersionOf(file) == ParseInt(Slice(file, Len(file) - 11, Len(file) - 9))

\* render_versions after one more file: keys holds the base names in insertion
\* order, map the dictionary base_name -> version -> list of paths
AddRender(rv, renders_folder, file) ==
  LET base_name == BaseNameOf(file)
      v         == VersionOf(file)
      full_path == [dir |-> renders_folder, name |-> file]
      known     == base_name \in DOMAIN rv.map
      versions  == IF known THEN rv.map[base_name] ELSE <<>>
      files     == IF v \in DOMAIN versions THEN versions[v] ELSE <<>>
      versions2 == [w \in DOMAIN versions \cup {v} |->
                      IF w = v THEN Append(files, full_path) ELSE versions[w]]
  IN [keys |-> IF known THEN rv.keys ELSE Append(rv.keys, base_name),
      map  |-> [b \in DOMAIN rv.map \cup {base_name} |->
                  IF b = base_name THEN versions2 ELSE rv.map[b]]]

RECURSIVE BuildRenderVersions(_, _, _)
\* the first loop: every entry of the listing that ends with ".png" and
\* matches the pattern is filed under its base name and version
BuildRenderVersions(renders_folder, files, rv) ==
  IF Len(files) = 0 THEN rv
  ELSE LET file == Head(files)
           rv2  == IF EndsWith(file, PngSuffix) /\ VersionPatternMatches(file)
                   THEN AddRender(rv, renders_folder, file)
                   ELSE rv
       IN BuildRenderVersions(renders_folder, Tail(files), rv2)

\* faulty variant: the lowest version of a base name is taken
LatestVersionMin(versions) ==
  CHOOSE x \in DOMAIN versions : \A y \in DOMAIN versions : x <= y

\* latest_version = max(versions.keys())
LatestVersion(versions) == Max(DOMAIN versions)

RECURSIVE CollectLatest(_, _, _)
\* the second loop: latest_files.extend(versions[latest_version]) per base name
CollectLatest(rv, i, acc) ==
  IF i > Len(rv.keys) THEN acc
  ELSE LET versions == rv.map[rv.keys[i]]
       IN CollectLatest(rv, i + 1, acc \o versions[LatestVersion(versions)])

GetLatestVersionedFiles(renders_folder, files) ==
  CollectLatest(
    BuildRenderVersions(renders_folder, files, [keys |-> <<>>, map |-> <<>>]),
    1, <<>>)

-----------------------------------------------------------------------------
(* gather_all_latest_images *)

\* os.path.join("CMP", "work") and os.path.join("LGT", "work"), as segments
CmpWork == <<"CMP", "work">>
LgtWork == <<"LGT", "work">>

IsDir(t, path) == path \in Range(t.dirs)

\* os.listdir of a directory of the tree (the names that are files)
ListDir(t, path) == IF path \in DOMAIN t.files THEN t.files[path] ELSE <<>>

RECURSIVE ReplaceCmpWork(_)
\* root.replace(os.path.join("CMP", "work"), os.path.join("LGT", "work")):
\* every occurrence is replaced, from the left
ReplaceCmpWork(root) ==
  IF Len(root) < 2 THEN root
  ELSE IF SubSeq(root, 1, 2) = CmpWork
       THEN LgtWork \o ReplaceCmpWork(SubSeq(root, 3, Len(root)))
       ELSE <<Head(root)>> \o ReplaceCmpWork(Tail(root))

Tagged(images, dept) == [i \in 1..Len(images) |-> <<images[i], dept>>]

\* one iteration of the os.walk loop: latest_images after the visit of root.
\* root.endswith and root.replace work on the path text; no directory name of
\* the modelled trees has "CMP" as a proper suffix, so they are taken per
\* segment.
VisitDir(t, root, acc) ==
  IF ~EndsWith(root, CmpWork) THEN acc
  ELSE
    LET cmp_renders == Append(root, "renders")
        cmp_images  == IF IsDir(t, cmp_renders)
                       THEN GetLatestVersionedFiles(cmp_renders, ListDir(t, cmp_renders))
                       ELSE <<>>
        lgt_renders == Append(ReplaceCmpWork(root), "renders")
        lgt_images  == IF IsDir(t, lgt_renders)
                       THEN GetLatestVersionedFiles(lgt_renders, ListDir(t, lgt_renders))
                       ELSE <<>>
    IN IF cmp_images # <<>> THEN acc \o Tagged(cmp_images, "CMP")
       ELSE acc \o Tagged(lgt_images, "LGT")

RECURSIVE WalkFrom(_, _, _)
WalkFrom(t, i, acc) ==
  IF i > Len(t.dirs) THEN acc
  ELSE WalkFrom(t, i + 1, VisitDir(t, t.dirs[i], acc))

GatherAllLatestImages(t) == WalkFrom(t, 1, <<>>)

-----------------------------------------------------------------------------
(* The inputs of the model: file names, renders folders, sequence folders *)

Frame1 == <<"0", "0", "0", "1">>
Frame2 == <<"0", "0", "0", "2">>
V001 == <<"0", "0", "1">>
V002 == <<"0", "0", "2">>
V003 == <<"0", "0", "3">>
V010 == <<"0", "1", "0">>

RenderName(base, ver, frame) ==
  base \o <<".", "v">> \o ver \o <<".">> \o frame \o PngSuffix

\* the names a renders folder may hold
ResolverNames ==
  { RenderName(<<"a">>, V001, Frame1),
    RenderName(<<"a">>, V002, Frame1),
    RenderName(<<"a">>, V002, Frame2),
    RenderName(<<"a">>, V010, Frame1),
    RenderName(<<"b">>, V001, Frame1),
    RenderName(<<".", "a">>, V003, Frame1),
    RenderName(<<"a", ".">>, V003, Frame2),
    <<"a", ".", "v", "0", "3", ".", "0", "0", "0", "1", ".", "p", "n", "g">>,
    <<"a", ".", "v", "0", "0", "9", ".", "0", "0", "0", "1", ".", "j", "p", "g">>,
    <<"n", "o", "t", "e", "s", ".", "t", "x", "t">> }

\* os.listdir returns every name once, in an order of its own
Listings == {l \in SeqsUpTo(ResolverNames, MaxListing) : IsInjective(l)}

\* the listings of the renders folders of a shot
ShotListings ==
  { <<>>,
    << <<"n", "o", "t", "e", "s", ".", "t", "x", "t">> >>,
    << RenderName(<<"s", "h", "0", "1">>, V001, Frame1),
       RenderName(<<"s", "h", "0", "1">>, V002, Frame1) >> }

\* how much of <shot>/<dept>/work/renders exists: 0 nothing, 1 the department
\* directory, 2 its work directory, 3 the renders directory with its files
DeptConfigs ==
  {[level |-> l, files |-> <<>>] : l \in 0..2}
    \cup {[level |-> 3, files |-> f] : f \in ShotListings}

ShotConfigs == [cmp : DeptConfigs, lgt : DeptConfigs]

RootFolder == <<"seq">>

\* the names of the shot directories, in walk order
ShotNames == <<"shot1", "shot2", "shot3", "shot4">>

ShotIndex(name) == CHOOSE i \in 1..Len(ShotNames) : ShotNames[i] = name

ShotDir(i) == Append(RootFolder, ShotNames[i])

DeptPath(i, dept, level) ==
  SubSeq(ShotDir(i) \o <<dept, "work", "renders">>, 1, Len(ShotDir(i)) + level)

DeptDirs(i, dept, cfg) == [l \in 1..cfg.level |-> DeptPath(i, dept, l)]

RECURSIVE WalkOrder(_, _)
\* the directories of the sequence folder, top-down as os.walk yields them
WalkOrder(cfgs, i) ==
  IF i > Len(cfgs) THEN <<>>
  ELSE <<ShotDir(i)>> \o DeptDirs(i, "CMP", cfgs[i].cmp)
         \o DeptDirs(i, "LGT", cfgs[i].lgt) \o WalkOrder(cfgs, i + 1)

RendersDirs(cfgs) ==
  {DeptPath(i, "CMP", 3) : i \in {j \in 1..Len(cfgs) : cfgs[j].cmp.level = 3}}
    \cup {DeptPath(i, "LGT", 3) : i \in {j \in 1..Len(cfgs) : cfgs[j].lgt.level = 3}}

MakeTree(cfgs) ==
  [shots |-> Len(cfgs),
   dirs  |-> <<RootFolder>> \o WalkOrder(cfgs, 1),
   files |-> [d \in RendersDirs(cfgs) |->
               IF d[3] = "CMP" THEN cfgs[ShotIndex(d[2])].cmp.files
               ELSE cfgs[ShotIndex(d[2])].lgt.files]]

Trees == {MakeTree(cfgs) : cfgs \in SeqsUpTo(ShotConfigs, MaxShots)}

-----------------------------------------------------------------------------
(* The values of the variables a specification does not use *)

NoTree  == [shots |-> 0, dirs |-> <<RootFolder>>, files |-> <<>>]
NoGrid  == [columns |-> 0, rows |-> 0]
NoSheet == [error |-> "", saved |-> FALSE, columns |-> 0, rows |-> 0,
            max_widths_per_column |-> <<>>, x_offsets |-> <<>>,
            sheet_width |-> 0, sheet_height |-> 0, pastes |-> <<>>,
            labels |-> <<>>]
NoRun   == [version |-> 0, outcome |-> "", before |-> [n \in {} |-> 0],
            moved |-> {}]
EmptyDir == [n \in {} |-> 0]

ResolverIdle == listing = <<>> /\ latest_files = <<>>
WalkerIdle   == tree = NoTree /\ latest_images = <<>>
GridIdle     == num_images = 0 /\ grid = NoGrid
ResizeIdle   == img_size = <<1, 1>> /\ resized = <<0, 0>>
SheetIdle    == image_tuples = <<>> /\ labeled = FALSE /\ sheet = NoSheet
NukeIdle     == nuke_lines = <<>>
MainIdle     == /\ script = "wf" /\ platform = "Darwin"
                /\ output_dir = EmptyDir /\ old_dir = EmptyDir
                /\ version = 0 /\ todo = {} /\ run = NoRun /\ history = <<>>

-----------------------------------------------------------------------------
(* SpecResolver: get_latest_versioned_files on every listing *)

RenderFolder == <<"seq", "shot1", "CMP", "work", "renders">>

ResolverInit ==
  /\ pc = "start"
  /\ listing \in Listings
  /\ latest_files = <<>>
  /\ WalkerIdle /\ GridIdle /\ ResizeIdle /\ SheetIdle /\ NukeIdle /\ MainIdle

Resolve ==
  /\ pc = "start"
  /\ latest_files' = GetLatestVersionedFiles(RenderFolder, listing)
  /\ pc' = "resolved"
  /\ UNCHANGED <<listing, walkerVars, gridVars, resizeVars, sheetVars, nukeVars, mainVars>>

ResolverNext == Resolve

SpecResolver == ResolverInit /\ [][ResolverNext]_vars

(* The claims about get_latest_versioned_files *)

\* the files of the listing that match <base>.vNNN.FFFF.png
MatchingFiles == {f \in Range(listing) : VersionPatternMatches(f)}

\* the number NNN of a matching name
ClaimVersion(f) ==
  100 * DigitVal(f[Len(f) - 11]) + 10 * DigitVal(f[Len(f) - 10])
    + DigitVal(f[Len(f) - 9])

\* the text before .vNNN, without its trailing dots
TextBase(f) ==
  LET g == MatchGroup1(f)
      k == Max({j \in 0..Len(g) : j = 0 \/ g[j] # "."})
  IN SubSeq(g, 1, k)

\* the text before .vNNN, without its leading and trailing dots
DotlessBase(f) ==
  LET g    == MatchGroup1(f)
      keep == {j \in 1..Len(g) : g[j] # "."}
  IN IF keep = {} THEN <<>>
     ELSE SubSeq(g, CHOOSE j \in keep : \A k \in keep : j <= k, Max(keep))

ReturnedNames == {latest_files[i].name : i \in 1..Len(latest_files)}

-----------------------------------------------------------------------------
(* SpecWalker: gather_all_latest_images on every sequence folder *)

WalkerInit ==
  /\ pc = "start"
  /\ tree \in Trees
  /\ latest_images = <<>>
  /\ ResolverIdle /\ GridIdle /\ ResizeIdle /\ SheetIdle /\ NukeIdle /\ MainIdle

Gather ==
  /\ pc = "start"
  /\ latest_images' = GatherAllLatestImages(tree)
  /\ pc' = "gathered"
  /\ UNCHANGED <<tree, resolverVars, gridVars, resizeVars, sheetVars, nukeVars, mainVars>>

WalkerNext == Gather

SpecWalker == WalkerInit /\ [][WalkerNext]_vars

(* The claims about gather_all_latest_images *)

\* what the latest files of <shot>/<dept>/work/renders are
Resolved(i, dept) ==
  LET renders == DeptPath(i, dept, 3)
  IN IF IsDir(tree, renders)
     THEN Range(GetLatestVersionedFiles(renders, ListDir(tree, renders)))
     ELSE {}

\* the part of the output that lies under shot i
ShotOutput(i) ==
  {t \in Range(latest_images) :
     SubSeq(t[1].dir, 1, Len(ShotDir(i))) = ShotDir(i)}

\* C2: per shot, the composite renders tagged "CMP" and nothing else when
\* there are any; otherwise (renders empty or absent, CMP/work itself absent
\* included) the lighting renders tagged "LGT" when there are any.
C2_CmpElseLgt ==
  pc = "gathered" =>
    \A i \in 1..tree.shots :
      /\ Resolved(i, "CMP") # {}
           => ShotOutput(i) = {<<f, "CMP">> : f \in Resolved(i, "CMP")}
      /\ (Resolved(i, "CMP") = {} /\ Resolved(i, "LGT") # {})
           => ShotOutput(i) = {<<f, "LGT">> : f \in Resolved(i, "LGT")}

-----------------------------------------------------------------------------
(* create_contact_sheet *)

fixed_height == 200
padding      == 10
title_height == 60

\* math.ceil(math.sqrt(n)): the least c with c * c >= n
CeilSqrt(n) == CHOOSE c \in 0..n : c * c >= n /\ (c = 0 \/ (c - 1) * (c - 1) < n)

\* faulty variant: the quotient is rounded down
FloorDiv(n, c) == n \div c

\* math.ceil(n / c) for n >= 0 and c >= 1
CeilDiv(n, c) == (n + c - 1) \div c

RECURSIVE AdjustGrid(_, _, _)
\* while columns < rows: columns += 1; rows = math.ceil(num_images / columns)
AdjustGrid(n, columns, rows) ==
  IF columns < rows
  THEN AdjustGrid(n, columns + 1, CeilDiv(n, columns + 1))
  ELSE [columns |-> columns, rows |-> rows]

\* columns and rows of a sheet of n >= 1 images
GridDims(n) ==
  LET columns == CeilSqrt(n)
      rows    == CeilDiv(n, columns)
  IN AdjustGrid(n, columns, rows)

(* The arithmetic of resize_to_height.  w / h is a Python float, an IEEE 754
   double: a float is modelled as [m |-> bits, e |-> exponent], the value
   being the integer with the binary digits m (most significant first, at
   most 53 of them, the first one 1) times 2^e.  Division and multiplication
   round to the nearest such value, ties to even; int() truncates. *)

\* the binary digits of a double's significand
MantissaBits == 53

RECURSIVE BitsOf(_)
\* the binary digits of the integer n >= 0, most significant first
BitsOf(n) == IF n = 0 THEN <<>> ELSE Append(BitsOf(n \div 2), n % 2)

RECURSIVE IntOfFirst(_, _)
\* the integer with the first k binary digits of bits
IntOfFirst(bits, k) ==
  IF k <= 0 THEN 0 ELSE 2 * IntOfFirst(bits, k - 1) + bits[k]

\* the integer with the binary digits bits
IntOf(bits) == IntOfFirst(bits, Len(bits))

\* the binary digits of the successor
IncrBits(bits) ==
  LET zeros == {i \in 1..Len(bits) : bits[i] = 0}
  IN IF zeros = {} THEN <<1>> \o [i \in 1..Len(bits) |-> 0]
     ELSE LET k == Max(zeros)
          IN [i \in 1..Len(bits) |->
                IF i < k THEN bits[i] ELSE IF i = k THEN 1 ELSE 0]

\* round to nearest, ties to even: the digits kept and how many were dropped;
\* sticky says that the exact value has more non-zero digits after bits
RoundBits(bits, sticky) ==
  LET L == Len(bits) IN
  IF L <= MantissaBits THEN [m |-> bits, dropped |-> 0]
  ELSE LET kept == SubSeq(bits, 1, MantissaBits)
           rest == sticky \/ \E i \in MantissaBits + 2..L : bits[i] = 1
           up   == bits[MantissaBits + 1] = 1 /\ (rest \/ kept[MantissaBits] = 1)
           r    == IF up THEN IncrBits(kept) ELSE kept
       IN IF Len(r) > MantissaBits
          THEN [m |-> SubSeq(r, 1, MantissaBits), dropped |-> L - MantissaBits + 1]
          ELSE [m |-> r, dropped |-> L - MantissaBits]

\* the binary digits the long division and the multiplication take per step
DigitLen == 13

\* the k lowest binary digits of d, most significant first
LowBits(d, k) == [i \in 1..k |-> (d \div 2^(k - i)) % 2]

\* bits without its leading zeros
NoLeadingZeros(bits) ==
  LET ones == {i \in 1..Len(bits) : bits[i] = 1}
  IN IF ones = {} THEN <<>>
     ELSE SubSeq(bits, CHOOSE i \in ones : \A j \in ones : i <= j, Len(bits))

RECURSIVE QuotientBits(_, _, _, _)
\* long division by h < 2^18, DigitLen digits per step: the digits so far
\* (without leading zeros), the remainder r < h, and frac, the number of
\* digits after the binary point; it stops with more digits than the
\* significand holds
QuotientBits(bits, r, h, frac) ==
  IF Len(bits) > MantissaBits THEN [bits |-> bits, r |-> r, frac |-> frac]
  ELSE LET d    == (r * 2^DigitLen) \div h
           more == LowBits(d, DigitLen)
       IN QuotientBits(IF Len(bits) = 0 THEN NoLeadingZeros(more) ELSE bits \o more,
                       (r * 2^DigitLen) % h, h, frac + DigitLen)

\* w / h for integers w >= 1 and h >= 1 (true division, correctly rounded)
FloatDiv(w, h) ==
  LET q == QuotientBits(BitsOf(w \div h), w % h, h, 0)
      r == RoundBits(q.bits, q.r # 0)
  IN [m |-> r.m, e |-> r.dropped - q.frac]

RECURSIVE MulFrom(_, _, _, _, _)
\* the multiplication by n < 2^17 from the last digits on, DigitLen digits per
\* step: k digits are still to multiply, carry comes from the digits done,
\* acc holds their result
MulFrom(bits, n, k, carry, acc) ==
  IF k = 0 THEN BitsOf(carry) \o acc
  ELSE LET c == IF k >= DigitLen THEN DigitLen ELSE k
           d == IntOf(SubSeq(bits, k - c + 1, k)) * n + carry
       IN MulFrom(bits, n, k - c, d \div 2^c, LowBits(d % 2^c, c) \o acc)

\* the binary digits of bits * n
MulBits(bits, n) == MulFrom(bits, n, Len(bits), 0, <<>>)

\* f * n for a float f and an integer n >= 1 (n converts exactly)
FloatMulInt(f, n) ==
  LET r == RoundBits(MulBits(f.m, n), FALSE)
  IN [m |-> r.m, e |-> f.e + r.dropped]

\* int(f) for a float f >= 0 below 2^31: the digits after the binary point
\* are cut off
FloatToInt(f) ==
  IF f.e >= 0 THEN IntOf(f.m \o [i \in 1..f.e |-> 0])
  ELSE IntOfFirst(f.m, Len(f.m) + f.e)

\* the sizes Image.open reads
SizeHD   == <<1920, 1080>>
SizeTall == <<100, 200>>
SizeWide == <<300, 200>>

\* the sizes of the images: every small size, and the sizes above
ImageSizes ==
  ((1..MaxSide) \X (1..MaxSide)) \cup {SizeHD, SizeTall, SizeWide}

\* int((w / h) * height)
TruncatedProduct(size, height) ==
  FloatToInt(FloatMulInt(FloatDiv(size[1], size[2]), height))

\* TruncatedProduct at the height the sheets use, one value per size (merged
\* with the empty function, which makes it a table of computed values)
WidthAtFixedHeight ==
  [size \in ImageSizes |-> TruncatedProduct(size, fixed_height)] @@ <<>>

\* new_width = int((w / h) * height)
NewWidth(size, height) ==
  IF height = fixed_height /\ size \in ImageSizes
  THEN WidthAtFixedHeight[size]
  ELSE TruncatedProduct(size, height)

\* img.resize((new_width, height)): the size of the image it returns
ResizeToHeight(size, height) == <<NewWidth(size, height), height>>

\* faulty variant: the column of an image is taken for its row
ColumnOfAsRow(i, columns) == (i \div columns) % columns

\* col = i % columns, for the 0-based index i
ColumnOf(i, columns) == i % columns

\* row = i // columns
RowOf(i, columns) == i \div columns

RECURSIVE MaxWidths(_, _, _, _)
\* the first loop: max_widths_per_column (1-based here) after the images
\* from the 0-based index i on
MaxWidths(widths, columns, i, acc) ==
  IF i >= Len(widths) THEN acc
  ELSE LET col == ColumnOf(i, columns) + 1
           m   == IF acc[col] >= widths[i + 1] THEN acc[col] ELSE widths[i + 1]
       IN MaxWidths(widths, columns, i + 1, [acc EXCEPT ![col] = m])

RECURSIVE XOffsetsNoPadding(_, _, _)
\* faulty variant: the padding between two columns is left out
XOffsetsNoPadding(max_widths, k, acc) ==
  IF k >= Len(max_widths) THEN acc
  ELSE XOffsetsNoPadding(max_widths, k + 1,
                         Append(acc, acc[Len(acc)] + max_widths[k]))

RECURSIVE XOffsets(_, _, _)
\* x_offsets = [padding]; for w in max_widths_per_column[:-1]: append(...)
XOffsets(max_widths, k, acc) ==
  IF k >= Len(max_widths) THEN acc
  ELSE XOffsets(max_widths, k + 1,
                Append(acc, acc[Len(acc)] + max_widths[k] + padding))

RECURSIVE Sum(_)
Sum(s) == IF Len(s) = 0 THEN 0 ELSE Head(s) + Sum(Tail(s))

\* re.search(r"(sh\d+)", filename): the leftmost "sh" followed by a digit,
\* with all the digits that follow
ExtractShCode(filename) ==
  LET starts == {i \in 1..Len(filename) - 2 :
                   /\ filename[i] = "s" /\ filename[i + 1] = "h"
                   /\ IsDigit(filename[i + 2])}
  IN IF starts = {} THEN <<>>
     ELSE LET i == CHOOSE x \in starts : \A y \in starts : x <= y
              j == Max({k \in i + 2..Len(filename) :
                          \A m \in i + 2..k : IsDigit(filename[m])})
          IN SubSeq(filename, i, j)

\* re.search(r"\.v(\d{3})\.", filename): version_str is "_v" and group 1 of
\* the leftmost match, or empty
VersionStr(filename) ==
  LET starts == {i \in 1..Len(filename) - 5 :
                   /\ filename[i] = "." /\ filename[i + 1] = "v"
                   /\ AllDigits(SubSeq(filename, i + 2, i + 4))
                   /\ filename[i + 5] = "."}
  IN IF starts = {} THEN <<>>
     ELSE LET i == CHOOSE x \in starts : \A y \in starts : x <= y
          IN <<"_", "v">> \o SubSeq(filename, i + 2, i + 4)

\* the characters of a department tag
DeptChars(dept) ==
  CASE dept = "CMP" -> <<"C", "M", "P">>
    [] dept = "LGT" -> <<"L", "G", "T">>
    [] dept = ""    -> <<>>

\* dept_str = f"_{dept}" if dept else ""
DeptStr(dept) == IF dept # "" THEN <<"_">> \o DeptChars(dept) ELSE <<>>

\* label = f"{sh_code}{dept_str}{version_str}" if sh_code
\*         else f"{dept_str}{version_str}"
LabelOf(filename, dept) ==
  LET sh_code == ExtractShCode(filename)
  IN IF sh_code # <<>>
     THEN sh_code \o DeptStr(dept) \o VersionStr(filename)
     ELSE DeptStr(dept) \o VersionStr(filename)

\* the sheet of n >= 1 images: the grid, the column widths, the canvas, and
\* per image where it is pasted and the label drawn on it (empty: none)
ComposeSheet(tuples, lab) ==
  LET n       == Len(tuples)
      dims    == GridDims(n)
      columns == dims.columns
      widths  == [i \in 1..n |-> ResizeToHeight(tuples[i].size, fixed_height)[1]]
      maxw    == MaxWidths(widths, columns, 0, [c \in 1..columns |-> 0])
      xoff    == XOffsets(maxw, 1, <<padding>>)
  IN [error   |-> "",
      saved   |-> TRUE,
      columns |-> columns,
      rows    |-> dims.rows,
      max_widths_per_column |-> maxw,
      x_offsets    |-> xoff,
      sheet_width  |-> Sum(maxw) + (columns + 1) * padding,
      sheet_height |-> title_height + dims.rows * (fixed_height + padding) + padding,
      pastes |-> [i \in 1..n |->
                   LET col == ColumnOf(i - 1, columns) + 1
                   IN [x |-> xoff[col] + (maxw[col] - widths[i]) \div 2,
                       y |-> title_height + padding
                               + RowOf(i - 1, columns) * (fixed_height + padding),
                       width |-> widths[i]]],
      labels |-> IF lab
                 THEN [i \in 1..n |-> LabelOf(tuples[i].path.name, tuples[i].dept)]
                 ELSE [i \in 1..n |-> <<>>]]

\* raise ValueError("No images to process."): nothing is drawn or saved
Raised(error) == [NoSheet EXCEPT !.error = error]

\* faulty variant: an empty list gives a saved, empty sheet
CreateContactSheetBlank(tuples, lab) ==
  IF Len(tuples) = 0 THEN [NoSheet EXCEPT !.saved = TRUE]
  ELSE ComposeSheet(tuples, lab)

CreateContactSheet(tuples, lab) ==
  IF Len(tuples) = 0 THEN Raised("ValueError")
  ELSE ComposeSheet(tuples, lab)

-----------------------------------------------------------------------------
(* SpecGrid: the grid of every number of images *)

GridInit ==
  /\ pc = "start"
  /\ num_images \in 1..MaxGridN
  /\ grid = NoGrid
  /\ ResolverIdle /\ WalkerIdle /\ ResizeIdle /\ SheetIdle /\ NukeIdle /\ MainIdle

ComputeGrid ==
  /\ pc = "start"
  /\ grid' = GridDims(num_images)
  /\ pc' = "grid_done"
  /\ UNCHANGED <<num_images, resolverVars, walkerVars, resizeVars, sheetVars, nukeVars, mainVars>>

GridNext == ComputeGrid

SpecGrid == GridInit /\ [][GridNext]_vars

(* The claims about the grid *)

\* C3: for every N >= 1 the grid computation ends with columns >= rows and
\* columns * rows >= N > columns * (rows - 1).
C3_GridInvariant ==
  (pc = "grid_done" /\ num_images >= 1) =>
    /\ grid.columns >= grid.rows
    /\ grid.columns * grid.rows >= num_images
    /\ num_images > grid.columns * (grid.rows - 1)

\* a grid with a last row that is not full
C3_Witness ==
  /\ pc = "grid_done"
  /\ grid.rows >= 3
  /\ grid.columns * grid.rows > num_images

-----------------------------------------------------------------------------
(* SpecSheet: create_contact_sheet on every list of images *)

ImagePath(shot, dept, name) ==
  [dir |-> <<"seq", shot, dept, "work", "renders">>, name |-> name]

NameSh01 == RenderName(<<"s", "h", "0", "1">>, V001, Frame1)
NameA    == RenderName(<<"a">>, V002, Frame1)
NameSh02 == <<"s", "h", "0", "2">> \o PngSuffix
NameB    == <<"b">> \o PngSuffix

\* the images handed to create_contact_sheet: path, department tag, size
ImageChoices ==
  { [path |-> ImagePath("shot2", "CMP", NameSh01), dept |-> "CMP", size |-> SizeHD],
    [path |-> ImagePath("shot3", "CMP", NameA),    dept |-> "CMP", size |-> SizeTall],
    [path |-> ImagePath("shot4", "CMP", NameA),    dept |-> "",    size |-> SizeWide],
    [path |-> ImagePath("shot5", "LGT", NameSh02), dept |-> "LGT", size |-> SizeHD],
    [path |-> ImagePath("shot6", "CMP", NameB),    dept |-> "",    size |-> SizeTall],
    [path |-> ImagePath("shot1", "LGT", NameSh01), dept |-> "LGT", size |-> SizeWide] }

SheetInit ==
  /\ pc = "start"
  /\ image_tuples \in SeqsUpTo(ImageChoices, MaxImages)
  /\ labeled \in BOOLEAN
  /\ sheet = NoSheet
  /\ ResolverIdle /\ WalkerIdle /\ GridIdle /\ ResizeIdle /\ NukeIdle /\ MainIdle

CreateSheet ==
  /\ pc = "start"
  /\ sheet' = CreateContactSheet(image_tuples, labeled)
  /\ pc' = "sheet_done"
  /\ UNCHANGED <<image_tuples, labeled, resolverVars, walkerVars, gridVars, resizeVars,
                 nukeVars, mainVars>>

SheetNext == CreateSheet

SpecSheet == SheetInit /\ [][SheetNext]_vars

(* The claims about create_contact_sheet *)

\* C7: an empty image list raises ValueError and no file is written, with
\* labeled False and True.
C7_EmptyRaises ==
  (pc = "sheet_done" /\ image_tuples = <<>>) =>
    /\ sheet.error = "ValueError"
    /\ ~sheet.saved

C7_Witness == pc = "sheet_done" /\ image_tuples = <<>> /\ labeled

\* the parts of a label that are present, in their fixed order
LabelParts(filename, dept) ==
  LET sh   == ExtractShCode(filename)
      ver  == VersionStr(filename)
      all  == <<sh, DeptChars(dept), IF ver = <<>> THEN <<>> ELSE Tail(ver)>>
  IN SelectSeq(all, LAMBDA part : part # <<>>)

RECURSIVE JoinParts(_)
\* the parts with one "_" between neighbours
JoinParts(parts) ==
  IF Len(parts) = 0 THEN <<>>
  ELSE IF Len(parts) = 1 THEN parts[1]
  ELSE parts[1] \o <<"_">> \o JoinParts(Tail(parts))

\* C8: the label is the shot code, the department tag and v+version, each
\* only when present, in that order, with separators only between present
\* parts; it never begins or ends with a separator.
C8_LabelJoined ==
  (pc = "sheet_done" /\ labeled) =>
    \A i \in 1..Len(sheet.labels) :
      LET label == sheet.labels[i]
      IN /\ label = JoinParts(LabelParts(image_tuples[i].path.name,
                                         image_tuples[i].dept))
         /\ label # <<>> => (label[1] # "_" /\ label[Len(label)] # "_")

\* the resized widths of the images of column col (1-based)
WidthsOfColumn(col) ==
  {sheet.pastes[i].width :
     i \in {j \in 1..Len(sheet.pastes) : (j - 1) % sheet.columns = col - 1}}

\* C9: every column is as wide as the widest resized image whose index i has
\* i mod columns equal to the column, so no image is wider than its column.
C9_ColumnWidths ==
  (pc = "sheet_done" /\ Len(image_tuples) >= 1) =>
    /\ Len(sheet.max_widths_per_column) = sheet.columns
    /\ \A col \in 1..sheet.columns :
         /\ WidthsOfColumn(col) # {}
         /\ sheet.max_widths_per_column[col] = Max(WidthsOfColumn(col))
    /\ \A i \in 1..Len(sheet.pastes) :
         /\ sheet.pastes[i].width
              = (image_tuples[i].size[1] * 200) \div image_tuples[i].size[2]
         /\ sheet.pastes[i].width
              <= sheet.max_widths_per_column[((i - 1) % sheet.columns) + 1]

\* two rows, and a column whose first image is narrower than its second
C9_Witness ==
  /\ pc = "sheet_done"
  /\ sheet.rows = 2
  /\ \E i \in 1..Len(sheet.pastes) :
       /\ i + sheet.columns <= Len(sheet.pastes)
       /\ sheet.pastes[i].width < sheet.pastes[i + sheet.columns].width
       /\ sheet.max_widths_per_column[((i - 1) % sheet.columns) + 1]
            = sheet.pastes[i + sheet.columns].width

\* the rectangles of the thumbnails i and j are at least gap apart, in x or
\* in y
Apart(i, j, gap) ==
  LET a == sheet.pastes[i]
      b == sheet.pastes[j]
  IN \/ a.x + a.width + gap <= b.x
     \/ b.x + b.width + gap <= a.x
     \/ a.y + fixed_height + gap <= b.y
     \/ b.y + fixed_height + gap <= a.y

\* C13: for N >= 1 images with positive resized widths every pasted thumbnail
\* lies inside the canvas, below the title bar and a padding away from the
\* left, right and bottom edges, and two distinct thumbnails do not overlap
\* and are at least one padding apart.
C13_ThumbnailsInside ==
  (/\ pc = "sheet_done"
   /\ Len(image_tuples) >= 1
   /\ \A i \in 1..Len(sheet.pastes) : sheet.pastes[i].width > 0) =>
    /\ Len(sheet.pastes) = Len(image_tuples)
    /\ \A i \in 1..Len(sheet.pastes) :
         LET t == sheet.pastes[i]
         IN /\ t.x >= padding
            /\ t.y >= title_height
            /\ t.x + t.width <= sheet.sheet_width - padding
            /\ t.y + fixed_height <= sheet.sheet_height - padding
    /\ \A i, j \in 1..Len(sheet.pastes) : i # j => Apart(i, j, padding)

\* three columns and two rows, with a thumbnail centred in a wider column
C13_Witness ==
  /\ pc = "sheet_done"
  /\ sheet.columns = 3
  /\ sheet.rows = 2
  /\ \E i \in 1..Len(sheet.pastes) :
       /\ sheet.pastes[i].width > 0
       /\ sheet.pastes[i].x > sheet.x_offsets[((i - 1) % sheet.columns) + 1]

-----------------------------------------------------------------------------
(* SpecResize: resize_to_height on every image size *)

ResizeInit ==
  /\ pc = "start"
  /\ img_size \in ImageSizes
  /\ resized = <<0, 0>>
  /\ ResolverIdle /\ WalkerIdle /\ GridIdle /\ SheetIdle /\ NukeIdle /\ MainIdle

\* img = resize_to_height(img, fixed_height)
Resize ==
  /\ pc = "start"
  /\ resized' = ResizeToHeight(img_size, fixed_height)
  /\ pc' = "resized"
  /\ UNCHANGED <<img_size, resolverVars, walkerVars, gridVars, sheetVars,
                 nukeVars, mainVars>>

ResizeNext == Resize

SpecResize == ResizeInit /\ [][ResizeNext]_vars

(* The claim about resize_to_height *)

\* C12: the resized image has the target height exactly, and its width is
\* round(w / h * H), the integer nearest to w * H / h: twice the distance of
\* new_width * h from w * H is at most h.
C12_WidthRounded ==
  pc = "resized" =>
    LET w == img_size[1]
        h == img_size[2]
        d == resized[1] * h - w * fixed_height
    IN /\ resized[2] = fixed_height
       /\ 2 * d <= h
       /\ 2 * d >= -h

-----------------------------------------------------------------------------
(* The Nuke node layout of wf_generate-contact-sheet.py *)

spacing      == 180
start_x      == 0
lgt_ypos     == 0
cmp_ypos     == 200
contact_ypos == 400

RECURSIVE StrLess(_, _)
\* a < b for two Python strings: the code points decide, a proper prefix is less
StrLess(a, b) ==
  IF Len(b) = 0 THEN FALSE
  ELSE IF Len(a) = 0 THEN TRUE
  ELSE IF Ord(a[1]) # Ord(b[1]) THEN Ord(a[1]) < Ord(b[1])
  ELSE StrLess(Tail(a), Tail(b))

\* os.path.basename(x[0])
Basename(t) == t.path.name

RECURSIVE InsertByBasename(_, _)
\* x goes behind the elements that are not greater: equal keys keep their order
InsertByBasename(sorted, x) ==
  IF Len(sorted) = 0 THEN <<x>>
  ELSE IF StrLess(Basename(x), Basename(sorted[1])) THEN <<x>> \o sorted
  ELSE <<sorted[1]>> \o InsertByBasename(Tail(sorted), x)

RECURSIVE SortFrom(_, _, _)
SortFrom(tuples, i, acc) ==
  IF i > Len(tuples) THEN acc
  ELSE SortFrom(tuples, i + 1, InsertByBasename(acc, tuples[i]))

\* faulty variant: the images keep the order of the walk
SortedImagesUnsorted(tuples) == tuples

\* sorted(image_tuples, key=lambda x: os.path.basename(x[0])), a stable sort
SortedImages(tuples) == SortFrom(tuples, 1, <<>>)

\* the lines the loop appends for the image of 0-based index idx
ReadAndDotLines(t, idx) ==
  LET xpos == start_x + idx * spacing
      ypos == IF t.dept = "LGT" THEN lgt_ypos ELSE cmp_ypos
  IN << <<"Read {">>,
        <<" file ", t.path>>,
        <<" name Read", idx + 1>>,
        <<" xpos ", xpos>>,
        <<" ypos ", ypos>>,
        <<"}">>,
        <<"">>,
        <<"Dot {">>,
        <<" name Dot", idx + 1>>,
        <<" xpos ", xpos + 34>>,
        <<" ypos ", contact_ypos>>,
        <<"}">>,
        <<"">> >>

RECURSIVE NodeLines(_, _)
NodeLines(sorted_images, idx) ==
  IF idx >= Len(sorted_images) THEN <<>>
  ELSE ReadAndDotLines(sorted_images[idx + 1], idx)
         \o NodeLines(sorted_images, idx + 1)

ReadPositions(sorted_images) ==
  [i \in 1..Len(sorted_images) |-> start_x + (i - 1) * spacing]

ContactSheetLines(sorted_images) ==
  LET read_positions == ReadPositions(sorted_images)
      center_x == IF read_positions # <<>>
                  THEN (read_positions[1] + read_positions[Len(read_positions)]) \div 2
                  ELSE 0
  IN << <<"ContactSheet {">>,
        <<" inputs ", Len(sorted_images)>>,
        <<" width 4096 height 4096">>,
        <<" rows ", CeilSqrt(Len(sorted_images))>>,
        <<" columns ", CeilSqrt(Len(sorted_images))>>,
        <<" center true">>,
        <<" xpos ", center_x>>,
        <<" ypos ", contact_ypos + 20>>,
        <<" name ContactSheet1">>,
        <<"}">> >>

NukeLines(tuples) ==
  LET sorted_images == SortedImages(tuples)
  IN NodeLines(sorted_images, 0) \o ContactSheetLines(sorted_images)

-----------------------------------------------------------------------------
(* SpecNuke: the exporter on every list of images *)

NukeInit ==
  /\ pc = "start"
  /\ image_tuples \in SeqsUpTo(ImageChoices, MaxNukeImages)
  /\ labeled = FALSE /\ sheet = NoSheet
  /\ nuke_lines = <<>>
  /\ ResolverIdle /\ WalkerIdle /\ GridIdle /\ ResizeIdle /\ MainIdle

\* if not image_tuples: sys.exit(1); otherwise the script is written
ExportNuke ==
  /\ pc = "start"
  /\ IF image_tuples = <<>>
     THEN pc' = "exit" /\ UNCHANGED nuke_lines
     ELSE pc' = "nuke_done" /\ nuke_lines' = NukeLines(image_tuples)
  /\ UNCHANGED <<sheetVars, resolverVars, walkerVars, gridVars, resizeVars, mainVars>>

NukeNext == ExportNuke

SpecNuke == NukeInit /\ [][NukeNext]_vars

(* The claims about the node layout *)

\* the lines that open a node of the given kind, e.g. "Read {"
NodeStarts(opening) ==
  {i \in 1..Len(nuke_lines) : nuke_lines[i][1] = opening}

\* the knob of the node opened at line i: the value on the first line with
\* that key before the node's closing brace
Knob(i, key) ==
  LET close == CHOOSE j \in i + 1..Len(nuke_lines) :
                 /\ nuke_lines[j][1] = "}"
                 /\ \A k \in i + 1..j - 1 : nuke_lines[k][1] # "}"
      at    == CHOOSE k \in i + 1..close - 1 : nuke_lines[k][1] = key
  IN nuke_lines[at][2]

\* the position in the stable sort by file name of the image at index j
SortedIndex(j) ==
  Cardinality({k \in 1..Len(image_tuples) :
                 \/ StrLess(image_tuples[k].path.name, image_tuples[j].path.name)
                 \/ /\ image_tuples[k].path.name = image_tuples[j].path.name
                    /\ k < j})

\* C10: N read nodes named Read1..ReadN, the one of sorted index i at
\* x = i * 180 and y = 0 for "LGT", 200 otherwise; one summary node with
\* N inputs, rows = columns = ceil(sqrt(N)), and x the integer midpoint of
\* the first and last read node.
C10_NodeLayout ==
  pc = "nuke_done" =>
    LET N     == Len(image_tuples)
        reads == NodeStarts("Read {")
        sheets == NodeStarts("ContactSheet {")
        xs    == {Knob(r, " xpos ") : r \in reads}
    IN /\ N >= 1
       /\ Cardinality(reads) = N
       /\ {Knob(r, " name Read") : r \in reads} = 1..N
       /\ \A j \in 1..N :
            \E r \in reads :
              /\ Knob(r, " name Read") = SortedIndex(j) + 1
              /\ Knob(r, " file ") = image_tuples[j].path
              /\ Knob(r, " xpos ") = SortedIndex(j) * 180
              /\ Knob(r, " ypos ") = IF image_tuples[j].dept = "LGT" THEN 0 ELSE 200
       /\ Cardinality(sheets) = 1
       /\ \A c \in sheets :
            /\ Knob(c, " inputs ") = N
            /\ Knob(c, " rows ") = Knob(c, " columns ")
            /\ Knob(c, " rows ") * Knob(c, " rows ") >= N
            /\ (Knob(c, " rows ") - 1) * (Knob(c, " rows ") - 1) < N
            /\ Knob(c, " xpos ") = (0 + (N - 1) * 180) \div 2
            /\ \A lo, hi \in xs :
                 (\A x \in xs : lo <= x /\ x <= hi)
                   => Knob(c, " xpos ") = (lo + hi) \div 2

\* a list the sort reorders, with two images of one file name and both tags
C10_Witness ==
  /\ pc = "nuke_done"
  /\ Len(image_tuples) >= 3
  /\ \E j \in 1..Len(image_tuples) : SortedIndex(j) + 1 # j
  /\ \E j, k \in 1..Len(image_tuples) :
       /\ j < k
       /\ image_tuples[j].path.name = image_tuples[k].path.name
       /\ image_tuples[j].dept = "LGT" /\ image_tuples[k].dept = "CMP"

-----------------------------------------------------------------------------
(* The entry scripts: version scan, archiving, output writes *)

\* whether text occurs in s at position p
HasAt(s, p, text) ==
  /\ p >= 1
  /\ p + Len(text) - 1 <= Len(s)
  /\ SubSeq(s, p, p + Len(text) - 1) = text

SheetPrefix  == <<"C", "o", "n", "t", "a", "c", "t", "-", "S", "h", "e", "e", "t", "_">>
LabeledPart  == <<"_", "l", "a", "b", "e", "l", "e", "d">>
JpgSuffix    == <<".", "j", "p", "g">>
NkSuffix     == <<".", "n", "k">>
AutosaveSuffix == <<".", "n", "k", ".", "a", "u", "t", "o", "s", "a", "v", "e">>
OldName      == <<"o", "l", "d">>

\* folder_name = os.path.basename(os.path.normpath(input_folder))
folder_name == <<"s", "q">>

RECURSIVE DigitsOf(_)
\* str(v) for v >= 0
DigitsOf(v) ==
  IF v < 10 THEN <<DigitChar(v)>>
  ELSE Append(DigitsOf(v \div 10), DigitChar(v % 10))

RECURSIVE ZeroPad(_, _)
ZeroPad(digits, width) ==
  IF Len(digits) >= width THEN digits ELSE ZeroPad(<<"0">> \o digits, width)

\* f"{version:03}"
Format03(v) == ZeroPad(DigitsOf(v), 3)

\* f"Contact-Sheet_{folder_name}.{version:03}.jpg" and its _labeled sibling
OutputName(lab, v) ==
  SheetPrefix \o folder_name \o (IF lab THEN LabeledPart ELSE <<>>)
    \o <<".">> \o Format03(v) \o JpgSuffix

\* f"Contact-Sheet_{folder_name}.{version:03}.nk"
NukeScriptName(v) ==
  SheetPrefix \o folder_name \o <<".">> \o Format03(v) \o NkSuffix

\* \.(\d+)\.jpg matched at position p: the digits, or <<>> when it does not
\* match there (what follows the digits is a dot, so the run of digits is
\* the whole run)
DigitsJpgAt(file, p) ==
  IF ~(p <= Len(file) /\ file[p] = ".") THEN <<>>
  ELSE LET e == Max({p} \cup {k \in p + 1..Len(file) :
                                \A m \in p + 1..k : IsDigit(file[m])})
       IN IF e > p /\ HasAt(file, e + 1, JpgSuffix)
          THEN SubSeq(file, p + 1, e)
          ELSE <<>>

\* the pattern tried at position i: the optional _labeled first, then without
OutputMatchAt(file, i) ==
  LET p == i + Len(SheetPrefix) + Len(folder_name)
  IN IF ~HasAt(file, i, SheetPrefix \o folder_name) THEN <<>>
     ELSE IF HasAt(file, p, LabeledPart)
             /\ DigitsJpgAt(file, p + Len(LabeledPart)) # <<>>
          THEN DigitsJpgAt(file, p + Len(LabeledPart))
          ELSE DigitsJpgAt(file, p)

\* re.search(rf"Contact-Sheet_{re.escape(folder_name)}(?:_labeled)?\.(\d+)\.jpg",
\* file): group 1 of the leftmost match, or <<>> when nothing matches
OutputMatch(file) ==
  LET starts == {i \in 1..Len(file) : OutputMatchAt(file, i) # <<>>}
  IN IF starts = {} THEN <<>>
     ELSE OutputMatchAt(file, CHOOSE i \in starts : \A j \in starts : i <= j)

\* re.match(rf"Contact-Sheet_{re.escape(folder_name)}\.\d+\.(nk|nk\.autosave)$", file)
NukeMatch(file) ==
  LET p == 1 + Len(SheetPrefix) + Len(folder_name)
  IN /\ HasAt(file, 1, SheetPrefix \o folder_name)
     /\ p <= Len(file) /\ file[p] = "."
     /\ LET e == Max({p} \cup {k \in p + 1..Len(file) :
                                 \A m \in p + 1..k : IsDigit(file[m])})
        IN /\ e > p
           /\ \/ SubSeq(file, e + 1, Len(file)) = NkSuffix
              \/ SubSeq(file, e + 1, Len(file)) = AutosaveSuffix

\* faulty variant: the next version is the highest one found
NextVersionSame(v, digits) == IF v >= ParseInt(digits) THEN v ELSE ParseInt(digits)

\* version = max(version, int(match.group(1)) + 1)
NextVersion(v, digits) ==
  IF v >= ParseInt(digits) + 1 THEN v ELSE ParseInt(digits) + 1

RECURSIVE ScanVersion(_, _)
\* version = 1; for file in os.listdir(output_dir): ...
ScanVersion(files, v) ==
  IF files = {} THEN v
  ELSE LET file == CHOOSE f \in files : TRUE
           m    == OutputMatch(file)
       IN ScanVersion(files \ {file},
                      IF m # <<>> THEN NextVersion(v, m) ELSE v)

\* faulty variant: the write is lost, the directory stays as it was
WithFileDropped(dir, name, content) == dir

\* a directory with the file name holding content
WithFile(dir, name, content) ==
  [n \in DOMAIN dir \cup {name} |-> IF n = name THEN content ELSE dir[n]]

\* a directory without the file name
WithoutFile(dir, name) == [n \in DOMAIN dir \ {name} |-> dir[n]]

\* the tuples with the size Image.open reads at each path
WithSizes(images) ==
  [i \in 1..Len(images) |->
     [path |-> images[i][1], dept |-> images[i][2], size |-> SizeHD]]

\* the sequence folders a run may find
RunTrees ==
  { MakeTree(<<>>),
    MakeTree(<< [cmp |-> [level |-> 3,
                          files |-> << RenderName(<<"s", "h", "0", "1">>, V001, Frame1),
                                       RenderName(<<"s", "h", "0", "1">>, V002, Frame1) >>],
                 lgt |-> [level |-> 0, files |-> <<>>]] >>) }

MainInit ==
  /\ pc = "idle"
  /\ script \in {"wf", "plain"}
  /\ platform \in {"Windows", "Darwin", "Linux"}
  /\ output_dir = EmptyDir /\ old_dir = EmptyDir
  /\ version = 0 /\ todo = {} /\ run = NoRun /\ history = <<>>
  /\ ResolverIdle /\ WalkerIdle /\ GridIdle /\ ResizeIdle /\ SheetIdle /\ NukeIdle

\* the record of a finished run, as the history keeps it
Finished(r, outcome) ==
  [version |-> r.version, outcome |-> outcome, moved |-> r.moved]

\* print("Unsupported operating system."); sys.exit()
Unsupported ==
  /\ pc = "idle"
  /\ Len(history) < MaxRuns
  /\ platform \notin {"Windows", "Darwin"}
  /\ history' = Append(history, Finished(NoRun, "unsupported"))
  /\ UNCHANGED <<pc, script, platform, output_dir, old_dir, version, todo, run,
                 resolverVars, walkerVars, gridVars, resizeVars, sheetVars, nukeVars>>

\* the images are gathered, the output directory is made and scanned for the
\* next version, old is made and the output directory is listed for archiving
StartRun ==
  /\ pc = "idle"
  /\ Len(history) < MaxRuns
  /\ platform \in {"Windows", "Darwin"}
  /\ \E t \in RunTrees :
       /\ tree' = t
       /\ latest_images' = GatherAllLatestImages(t)
       /\ image_tuples' = WithSizes(GatherAllLatestImages(t))
  /\ version' = ScanVersion(DOMAIN output_dir, 1)
  /\ todo' = DOMAIN output_dir \cup {OldName}
  /\ run' = [version |-> version', outcome |-> "", before |-> output_dir,
             moved |-> {}]
  /\ sheet' = NoSheet
  /\ pc' = "archiving"
  /\ UNCHANGED <<script, platform, output_dir, old_dir, history, labeled,
                 resolverVars, gridVars, resizeVars, nukeVars>>

\* os.rename(src, dst) when dst exists: it is replaced on POSIX, and
\* FileExistsError (WinError 183) is raised on Windows
RenameRaises(name) == platform = "Windows" /\ name \in DOMAIN old_dir

\* one iteration of the archiving loop, on any entry of the listing
ArchiveFile ==
  /\ pc = "archiving"
  /\ \E file \in todo :
       LET m       == OutputMatch(file)
           applies == /\ m # <<>>
                      /\ ParseInt(m) < version
                      /\ file \in DOMAIN output_dir
           moved   == /\ old_dir' = WithFile(old_dir, file, output_dir[file])
                      /\ output_dir' = WithoutFile(output_dir, file)
                      /\ run' = [run EXCEPT !.moved = @ \cup {file}]
                      /\ todo' = todo \ {file}
                      /\ UNCHANGED <<pc, history>>
       IN IF ~applies
          THEN /\ todo' = todo \ {file}
               /\ UNCHANGED <<output_dir, old_dir, run, pc, history>>
          ELSE IF script = "wf"
          THEN \* os.remove(old_file_path) if it exists, then os.rename
               moved
          ELSE IF RenameRaises(file)
          THEN /\ history' = Append(history, Finished(run, "FileExistsError"))
               /\ pc' = "idle"
               /\ todo' = {}
               /\ UNCHANGED <<output_dir, old_dir, run>>
          ELSE moved
  /\ UNCHANGED <<script, platform, version, resolverVars, walkerVars, gridVars, resizeVars,
                 sheetVars, nukeVars>>

\* create_contact_sheet(image_tuples, output_normal, title, labeled=False);
\* Image.open raises when an image cannot be read
WriteNormal ==
  /\ pc = "archiving"
  /\ todo = {}
  /\ \E readable \in BOOLEAN :
       LET result == IF readable \/ image_tuples = <<>>
                     THEN CreateContactSheet(image_tuples, FALSE)
                     ELSE Raised("OSError")
       IN /\ sheet' = result
          /\ labeled' = FALSE
          /\ IF result.error # ""
             THEN /\ history' = Append(history, Finished(run, result.error))
                  /\ pc' = "idle"
                  /\ UNCHANGED output_dir
             ELSE /\ output_dir' = WithFile(output_dir, OutputName(FALSE, version),
                                            Len(history) + 1)
                  /\ pc' = "normal_written"
                  /\ UNCHANGED history
  /\ UNCHANGED <<script, platform, old_dir, version, todo, run, image_tuples,
                 resolverVars, walkerVars, gridVars, resizeVars, nukeVars>>

\* create_contact_sheet(image_tuples, output_labeled, title, labeled=True)
WriteLabeled ==
  /\ pc = "normal_written"
  /\ \E readable \in BOOLEAN :
       LET result == IF readable
                     THEN CreateContactSheet(image_tuples, TRUE)
                     ELSE Raised("OSError")
       IN /\ sheet' = result
          /\ labeled' = TRUE
          /\ IF result.error # ""
             THEN /\ history' = Append(history, Finished(run, result.error))
                  /\ pc' = "idle"
                  /\ UNCHANGED output_dir
             ELSE /\ output_dir' = WithFile(output_dir, OutputName(TRUE, version),
                                            Len(history) + 1)
                  /\ pc' = "sheets_done"
                  /\ UNCHANGED history
  /\ UNCHANGED <<script, platform, old_dir, version, todo, run, image_tuples,
                 resolverVars, walkerVars, gridVars, resizeVars, nukeVars>>

\* the run ends: the plain script after the sheets, the wf script when the
\* answer to the Nuke prompt is not "y"
FinishRun ==
  /\ pc = "sheets_done"
  /\ history' = Append(history, Finished(run, "ok"))
  /\ pc' = "idle"
  /\ UNCHANGED <<script, platform, output_dir, old_dir, version, todo, run,
                 resolverVars, walkerVars, gridVars, resizeVars, sheetVars, nukeVars>>

\* the Nuke scripts already in the output directory
NukeFiles(dir) == {f \in DOMAIN dir : NukeMatch(f)}

\* the wf script, answer "y": the old .nk files are moved to old (replacing
\* what is there) and the new script is written
WriteNukeScript ==
  /\ pc = "sheets_done"
  /\ script = "wf"
  /\ LET olds   == NukeFiles(output_dir)
         kept   == [n \in DOMAIN output_dir \ olds |-> output_dir[n]]
     IN /\ old_dir' = [n \in DOMAIN old_dir \cup olds |->
                         IF n \in olds THEN output_dir[n] ELSE old_dir[n]]
        /\ output_dir' = WithFile(kept, NukeScriptName(version), Len(history) + 1)
  /\ nuke_lines' = NukeLines(image_tuples)
  /\ history' = Append(history, Finished(run, "ok"))
  /\ pc' = "idle"
  /\ UNCHANGED <<script, platform, version, todo, run,
                 resolverVars, walkerVars, gridVars, resizeVars, sheetVars>>

Next ==
  \/ Unsupported
  \/ StartRun
  \/ ArchiveFile
  \/ WriteNormal
  \/ WriteLabeled
  \/ FinishRun
  \/ WriteNukeScript

Spec == MainInit /\ [][Next]_vars

(* The claims about the version scan, the archiving and the output writes *)

\* the sheets of the output directory whose name carries a version below v
OlderSheets(dir, v) ==
  {f \in DOMAIN dir : OutputMatch(f) # <<>> /\ ParseInt(OutputMatch(f)) < v}

\* the normal and the labeled sheet of version v
FileSet(v) == {OutputName(FALSE, v), OutputName(TRUE, v)}

AllRunsOk == \A k \in 1..Len(history) : history[k].outcome = "ok"

\* C4: from an empty output directory, consecutive successful runs take the
\* versions 1, 2, 3, ...; every run after the first moves exactly the file
\* set of the run before it into old; after a run the output directory holds
\* no sheet of an earlier version.
C4_ConsecutiveRuns ==
  (pc = "idle" /\ AllRunsOk) =>
    /\ \A k \in 1..Len(history) :
         /\ history[k].version = k
         /\ history[k].moved = IF k = 1 THEN {} ELSE FileSet(k - 1)
    /\ OlderSheets(output_dir, Len(history)) = {}
    /\ \A k \in 1..Len(history) :
         \A f \in FileSet(k) :
           IF k = Len(history)
           THEN f \in DOMAIN output_dir /\ output_dir[f] = k
           ELSE f \in DOMAIN old_dir /\ old_dir[f] = k /\ f \notin DOMAIN output_dir

\* three successful runs in a row
C4_Witness ==
  /\ pc = "idle"
  /\ Len(history) = 3
  /\ AllRunsOk
  /\ FileSet(1) \cup FileSet(2) \subseteq DOMAIN old_dir

\* C5: the version a run chooses is greater than the version every earlier
\* run chose, also after a run that archived the outputs and then failed.
C5_VersionMonotonic ==
  \A j, k \in 1..Len(history) :
    (j < k /\ history[j].outcome # "unsupported"
           /\ history[k].outcome # "unsupported")
      => history[j].version < history[k].version

\* the archiving loop of the current run has visited every entry
ArchivingDone ==
  \/ pc = "archiving" /\ todo = {}
  \/ pc \in {"normal_written", "sheets_done"}

\* C6: in both scripts every sheet with a version below the new one is moved
\* into old, replacing a file of the same name there; the collision is never
\* raised as an error and no stale copy stays in the output directory.
C6_ArchiveOverwrites ==
  /\ \A k \in 1..Len(history) : history[k].outcome # "FileExistsError"
  /\ ArchivingDone =>
       \A f \in OlderSheets(run.before, version) :
         /\ f \notin DOMAIN output_dir
         /\ f \in DOMAIN old_dir
         /\ old_dir[f] = run.before[f]

\* the second create_contact_sheet call of the run that just ended raised:
\* WriteNormal had written the unlabeled sheet, WriteLabeled left the error
LabeledFailed ==
  /\ pc = "idle"
  /\ labeled
  /\ sheet.error # ""

\* C11: when the unlabeled sheet has been written and the labeled one then
\* fails, the unlabeled sheet of the new version is still in the output
\* directory with what the run wrote (it was not archived), and every file
\* the run archived is still in old with the content it had.
C11_NoRollback ==
  LabeledFailed =>
    /\ OutputName(FALSE, version) \in DOMAIN output_dir
    /\ output_dir[OutputName(FALSE, version)] = Len(history)
    /\ OutputName(FALSE, version) \notin run.moved
    /\ \A f \in run.moved :
         /\ f \in DOMAIN old_dir
         /\ old_dir[f] = run.before[f]

\* a run that archived two sheets, wrote the unlabeled sheet and failed on the
\* labeled one
C11_Witness ==
  /\ LabeledFailed
  /\ Cardinality(run.moved) = 2
  /\ history[Len(history)].outcome = "OSError"

\* the files of a directory that the pattern of the version scan matches
MatchingSheets(dir) == {f \in DOMAIN dir : OutputMatch(f) # <<>>}

\* the archiving loop of the current run has just visited its last entry
LoopCompleted == pc = "archiving" /\ todo = {}

\* the archiving loop of the run that just ended was left by an exception
LoopAborted ==
  /\ pc = "idle"
  /\ Len(history) > 0
  /\ history[Len(history)].outcome = "FileExistsError"

\* the run that just ended wrote both sheets
RunSucceeded ==
  /\ pc = "idle"
  /\ Len(history) > 0
  /\ history[Len(history)].outcome = "ok"

\* what holds of the runs whose archiving loop visits every entry: no sheet is
\* left after the loop, and a successful run leaves exactly its two sheets,
\* with every sheet it found and every sheet of a lower version in old
SheetsAfterCompletedLoop ==
  /\ LoopCompleted =>
       /\ MatchingSheets(output_dir) = {}
       /\ \A f \in MatchingSheets(run.before) :
            /\ ParseInt(OutputMatch(f)) < version
            /\ f \in run.moved
  /\ RunSucceeded =>
       /\ MatchingSheets(output_dir) = FileSet(version)
       /\ \A f \in FileSet(version) : output_dir[f] = Len(history)
       /\ \A f \in MatchingSheets(run.before) :
            f \in DOMAIN old_dir /\ old_dir[f] = run.before[f]
       /\ \A k \in 1..Len(history) :
            (history[k].outcome = "ok" /\ history[k].version < version)
              => FileSet(history[k].version) \subseteq DOMAIN old_dir

\* C14: after the archiving loop of any run no sheet remains in the output
\* directory, every sheet found there having a version below the new one and
\* being moved, also when the loop is left early; so a successful run leaves
\* exactly its two sheets there and every older sheet is in old.
C14_OnlyNewSheets ==
  /\ SheetsAfterCompletedLoop
  /\ LoopAborted => MatchingSheets(output_dir) = {}

=============================================================================
